---------------------------- MODULE Spec2Model ----------------------------
(***************************************************************************)
(* A model of arena::Arena (include/arena/arena.hpp): a bump-pointer       *)
(* allocator over a fixed std::vector<std::byte>, with Mark/rewind         *)
(* checkpoints and the RAII helper Arena::Scope.                           *)
(*                                                                         *)
(* std::size_t is modelled as an unsigned integer of WordBits bits, so     *)
(* every addition and subtraction the code performs wraps modulo Word.     *)
(* Addresses are size_t values (the code casts buffer_.data() to size_t);  *)
(* the null pointer is the address 0.                                      *)
(*                                                                         *)
(* The program state is arena, scope and marks.  The other variables are   *)
(* history variables: they record the last operation and what happened     *)
(* since a Mark or a Scope was taken, and are kept only in the             *)
(* specifications whose Init sets observe.                                 *)
(***************************************************************************)
EXTENDS Naturals, Sequences, FiniteSets

\* ------------------------------------------------------------------ bounds

\* Width of std::size_t in the model (64 on the usual build).
WordBits == 5
\* Largest capacity an Arena is constructed with.
MaxCap == 6
\* Request sizes are drawn from 0..MaxSize and from the MaxSize+1 largest words.
MaxSize == 2
\* How many of the latest returned blocks of an arena are remembered.
MaxBlocks == 3

Word == 2 ^ WordBits

\* The Arena objects, the Scope objects and the Mark values a caller holds.
ArenaIds == {1, 2}
ScopeIds == {1, 2}
MarkIds == {1}

\* Where the allocator may place a non-empty buffer: low in the address
\* space, or in its upper half (a 32-bit process), where rounding an address
\* up to a large alignment passes the last word.
Bases == {8, Word - 8}
\* Capacities passed to Arena(capacity_bytes); 0 is the default constructor.
Caps == {0, MaxCap \div 2, MaxCap}
\* Sizes and alignments passed to allocate / try_allocate.
Sizes == (0 .. MaxSize) \cup ((Word - 1 - MaxSize) .. (Word - 1))
Alignments == {0, 1, 2, 3, 4, Word \div 2}
\* The smaller sets used where every object takes part at once.
SmallCaps == {0, MaxCap \div 2}
SomeSizes == {0, 1, MaxSize, Word - MaxSize, Word - 1}
SomeAlignments == {1, 2, 3, Word \div 2}
\* Mark values a caller can fabricate (Mark is an aggregate with a public field).
RawMarks == 0 .. (MaxCap + 1)
\* Element types of make_array<T>: [sizeof, alignof].
Types == {[size |-> 1, align |-> 1], [size |-> 4, align |-> 4]}
Counts == {0, 1, 2, Word \div 4}

\* ------------------------------------------------------------------- state

VARIABLES
  arena,   \* ArenaIds -> [live, base, cap, off]: buffer_.data(), buffer_.size(), offset_
  scope,   \* ScopeIds -> [live, a_, m_]: a_ = 0 is nullptr
  marks,   \* MarkIds -> [set, offset]: the Mark values the caller holds
  observe, \* whether the history variables below are kept
  sghost,  \* ScopeIds -> [arena, born, pure]: the rewind the Scope is responsible
           \* for (the arena and its used() at construction; arena 0 for none);
           \* only allocations and properly nested Scopes since
  mghost,  \* MarkIds -> [arena, born, pure]: where and at which used() the Mark
           \* was captured; only allocations since
  stack,   \* the Scope objects holding an arena, in order of construction
  last,    \* the last operation: its arguments, its result, the state before it
  blocks   \* [keep, of]: whether the returned blocks are recorded, and for each
           \* arena the MaxBlocks latest blocks [p, n] returned since its last
           \* rewind, reset or move, in the order of the calls

vars == <<arena, scope, marks, observe, sghost, mghost, stack, last, blocks>>

NoArena == [live |-> FALSE, base |-> 0, cap |-> 0, off |-> 0]
NoScope == [live |-> FALSE, a_ |-> 0, m_ |-> 0]
NoMark == [set |-> FALSE, offset |-> 0]
NoSGhost == [arena |-> 0, born |-> 0, pure |-> FALSE]
NoMGhost == [arena |-> 0, born |-> 0, pure |-> FALSE]
NoBlocks == [a \in ArenaIds |-> <<>>]
NoLast == [op |-> "none", a |-> 0, b |-> 0, size |-> 0, align |-> 0, count |-> 0,
           ptr |-> 0, exc |-> "none", preOff |-> 0, preCap |-> 0, m |-> 0,
           born |-> 0, own |-> FALSE, pure |-> FALSE, src |-> 0]

\* --------------------------------------------------------- pure functions

\* x & y on WordBits-bit words.
RECURSIVE BitAnd(_, _)
BitAnd(x, y) ==
  IF x = 0 \/ y = 0 THEN 0
  ELSE (x % 2) * (y % 2) + 2 * BitAnd(x \div 2, y \div 2)

\* ~x on WordBits-bit words.
BitNot(x) == (Word - 1) - x

\* x - y on WordBits-bit words.
Sub(x, y) == ((x + Word) - y) % Word

\* x + y on WordBits-bit words.
Add(x, y) == (x + y) % Word

\* x * y on WordBits-bit words.
Mul(x, y) == (x * y) % Word

is_power_of_two(x) == x # 0 /\ BitAnd(x, Sub(x, 1)) = 0

align_up(value, alignment) ==
  BitAnd(Add(value, Sub(alignment, 1)), BitNot(Sub(alignment, 1)))

\* A constructor that starts the offset at the end of the buffer.
ArenaStartsFull(capacity_bytes, addr) ==
  [live |-> TRUE, base |-> IF capacity_bytes = 0 THEN 0 ELSE addr,
   cap |-> capacity_bytes, off |-> capacity_bytes]

\* Arena(std::size_t capacity_bytes): the vector allocates capacity_bytes at
\* the address the allocator chose; an empty vector holds no storage.
Arena(capacity_bytes, addr) ==
  [live |-> TRUE, base |-> IF capacity_bytes = 0 THEN 0 ELSE addr,
   cap |-> capacity_bytes, off |-> 0]

capacity(A) == A.cap
used(A) == A.off
remaining(A) == Sub(capacity(A), used(A))
empty(A) == A.off = 0

\* x >= b && x < e with e = b + buffer_.size(), one past the buffer's end.
owns(A, p) == p >= A.base /\ p < A.base + A.cap

\* try_allocate without its is_power_of_two test.
TryAllocateAnyAlignment(A, size0, alignment) ==
  LET size == IF size0 = 0 THEN 1 ELSE size0
      aligned == align_up(Add(A.base, A.off), alignment)
      new_offset == Add(Sub(aligned, A.base), size)
  IN IF new_offset > A.cap THEN [ptr |-> 0, off |-> A.off]
     ELSE [ptr |-> aligned, off |-> new_offset]

\* try_allocate: the returned pointer and the offset_ it leaves.
try_allocate(A, size0, alignment) ==
  LET size == IF size0 = 0 THEN 1 ELSE size0 IN
  IF ~is_power_of_two(alignment) THEN [ptr |-> 0, off |-> A.off]
  ELSE LET base == A.base
           current == Add(base, A.off)
           aligned == align_up(current, alignment)
           new_offset == Add(Sub(aligned, base), size)
       IN IF new_offset > A.cap THEN [ptr |-> 0, off |-> A.off]
          ELSE [ptr |-> aligned, off |-> new_offset]

\* allocate raising a condition of its own for an invalid alignment.
AllocateDistinctConditions(A, size, alignment) ==
  LET r == try_allocate(A, size, alignment) IN
  [ptr |-> r.ptr, off |-> r.off,
   exc |-> IF r.ptr # 0 THEN "none"
           ELSE IF is_power_of_two(alignment) THEN "bad_alloc"
           ELSE "invalid_argument"]

\* allocate: try_allocate, and std::bad_alloc when it returned a null pointer.
allocate(A, size, alignment) ==
  LET r == try_allocate(A, size, alignment) IN
  [ptr |-> r.ptr, off |-> r.off,
   exc |-> IF r.ptr = 0 THEN "bad_alloc" ELSE "none"]

\* make<T>(args...): allocate(sizeof(T), alignof(T)), then T's constructor.
make(A, T) == allocate(A, T.size, T.align)

\* make_array without its test for count == 0.
MakeArrayWithoutZeroTest(A, T, count) ==
  allocate(A, Mul(T.size, count), T.align)

\* make_array<T>(count): nullptr without allocating when count == 0.
make_array(A, T, count) ==
  IF count = 0 THEN [ptr |-> 0, off |-> A.off, exc |-> "none"]
  ELSE allocate(A, Mul(T.size, count), T.align)

\* mark() returning a default-initialised Mark.
MarkDefault(A) == 0

mark(A) == A.off

\* rewind without its range test.
RewindUnchecked(A, m) == [A EXCEPT !.off = m]

\* rewind with its range test the wrong way round.
RewindInverted(A, m) == IF m >= A.cap THEN [A EXCEPT !.off = m] ELSE A

rewind(A, m) == IF m <= A.cap THEN [A EXCEPT !.off = m] ELSE A

\* reset leaving offset_ where it is.
ResetKeepsOffset(A) == A

reset(A) == [A EXCEPT !.off = 0]

\* A move that takes the buffer and forgets the offset.
MoveToEmptied(other) == [live |-> TRUE, base |-> other.base, cap |-> other.cap,
                         off |-> 0]

\* A move that takes the offset and leaves the buffer behind.
MoveToWithoutBuffer(other) == [live |-> TRUE, base |-> 0, cap |-> 0,
                               off |-> other.off]

\* The destination of an Arena move: the source's buffer and offset.
MoveTo(other) == [live |-> TRUE, base |-> other.base, cap |-> other.cap,
                  off |-> other.off]

\* A move that leaves the source its buffer (a copy instead of a move).
MovedFromKeepsBuffer(other) == [other EXCEPT !.off = 0]

\* The source of an Arena move: other.offset_ = 0, and its vector was moved
\* from, which leaves it empty (guaranteed for the move constructor; what
\* every standard library does for move assignment with std::allocator).
MovedFrom(other) == [live |-> TRUE, base |-> 0, cap |-> 0, off |-> 0]

\* ---------------------------------------------------------------- history

Observed(old, new) == IF observe THEN new ELSE old

\* sghost and mghost with `pure` cleared for the Scopes and Marks taken on an
\* arena of S: something other than an allocation has since happened to it.
ScopesTouched(S) ==
  [s \in ScopeIds |->
     IF scope[s].live /\ scope[s].a_ \in S THEN [sghost[s] EXCEPT !.pure = FALSE]
     ELSE sghost[s]]

MarksTouched(S) ==
  [k \in MarkIds |->
     IF mghost[k].arena \in S THEN [mghost[k] EXCEPT !.pure = FALSE]
     ELSE mghost[k]]

\* Scope s is the most recently constructed of the Scopes holding its arena.
Innermost(s) ==
  \A i \in 1 .. Len(stack) :
    stack[i] = s =>
      \A j \in (i + 1) .. Len(stack) : scope[stack[j]].a_ # scope[s].a_

Without(q, s) == SelectSeq(q, LAMBDA x : x # s)
Renamed(q, t, s) == [i \in 1 .. Len(q) |-> IF q[i] = t THEN s ELSE q[i]]

\* blocks after arena a returned the address p for a request of size bytes
\* (nothing to record when p is null).
Returned(a, p, size) ==
  IF blocks.keep /\ p # 0
  THEN LET q == Append(blocks.of[a], [p |-> p, n |-> IF size = 0 THEN 1 ELSE size])
       IN [blocks EXCEPT !.of[a] = IF Len(q) > MaxBlocks THEN Tail(q) ELSE q]
  ELSE blocks

\* blocks after a rewind, a reset, a move or the end of the arenas of S.
Forgotten(S) ==
  IF blocks.keep
  THEN [blocks EXCEPT !.of = [a \in ArenaIds |-> IF a \in S THEN <<>> ELSE @[a]]]
  ELSE blocks

\* The state before an operation on arena a, as `last` records it.
Before(op, a) ==
  [NoLast EXCEPT !.op = op, !.a = a, !.preOff = used(arena[a]),
                 !.preCap = capacity(arena[a])]

\* ------------------------------------------------------------------ Arena

ArenaCtor(a, c, addr) ==
  /\ ~arena[a].live
  /\ arena' = [arena EXCEPT ![a] = Arena(c, addr)]
  /\ mghost' = Observed(mghost, [k \in MarkIds |->
                 IF mghost[k].arena = a
                 THEN [mghost[k] EXCEPT !.arena = 0, !.pure = FALSE] ELSE mghost[k]])
  /\ last' = Observed(last, [NoLast EXCEPT !.op = "Arena", !.a = a])
  /\ UNCHANGED <<scope, marks, observe, sghost, stack>>
  /\ blocks' = Forgotten({a})

\* Arena(Arena&& other), constructing a from o.
ArenaMoveCtor(a, o) ==
  /\ ~arena[a].live
  /\ arena[o].live
  /\ arena' = [arena EXCEPT ![a] = MoveTo(arena[o]), ![o] = MovedFrom(arena[o])]
  /\ sghost' = Observed(sghost, ScopesTouched({o}))
  /\ mghost' = Observed(mghost, MarksTouched({a, o}))
  /\ last' = Observed(last, [Before("Arena(Arena&&)", o) EXCEPT !.a = a, !.b = o])
  /\ UNCHANGED <<scope, marks, observe, stack>>
  /\ blocks' = Forgotten({a, o})

\* a = std::move(o); nothing when this == &other.
ArenaMoveAssign(a, o) ==
  /\ arena[a].live
  /\ arena[o].live
  /\ arena' = IF a # o
              THEN [arena EXCEPT ![a] = MoveTo(arena[o]), ![o] = MovedFrom(arena[o])]
              ELSE arena
  /\ sghost' = Observed(sghost, ScopesTouched({a, o}))
  /\ mghost' = Observed(mghost, MarksTouched({a, o}))
  /\ last' = Observed(last, [Before("operator=(Arena&&)", o) EXCEPT !.a = a, !.b = o])
  /\ UNCHANGED <<scope, marks, observe, stack>>
  /\ blocks' = (IF a # o THEN Forgotten({a, o}) ELSE blocks)

\* ~Arena(): only once no Scope refers to the arena any more.
ArenaDtor(a) ==
  /\ arena[a].live
  /\ \A s \in ScopeIds : ~(scope[s].live /\ scope[s].a_ = a)
  /\ arena' = [arena EXCEPT ![a] = NoArena]
  /\ mghost' = Observed(mghost, MarksTouched({a}))
  /\ last' = Observed(last, [NoLast EXCEPT !.op = "~Arena", !.a = a])
  /\ UNCHANGED <<scope, marks, observe, sghost, stack>>
  /\ blocks' = Forgotten({a})

TryAllocate(a, size, alignment) ==
  /\ arena[a].live
  /\ LET r == try_allocate(arena[a], size, alignment) IN
       /\ arena' = [arena EXCEPT ![a].off = r.off]
       /\ last' = Observed(last, [Before("try_allocate", a) EXCEPT
                                    !.size = size, !.align = alignment,
                                    !.ptr = r.ptr])
  /\ UNCHANGED <<scope, marks, observe, sghost, mghost, stack>>
  /\ blocks' = Returned(a, try_allocate(arena[a], size, alignment).ptr, size)

Allocate(a, size, alignment) ==
  /\ arena[a].live
  /\ LET r == allocate(arena[a], size, alignment) IN
       /\ arena' = [arena EXCEPT ![a].off = r.off]
       /\ last' = Observed(last, [Before("allocate", a) EXCEPT
                                    !.size = size, !.align = alignment,
                                    !.ptr = r.ptr, !.exc = r.exc])
  /\ UNCHANGED <<scope, marks, observe, sghost, mghost, stack>>
  /\ blocks' = Returned(a, allocate(arena[a], size, alignment).ptr, size)

Make(a, T) ==
  /\ arena[a].live
  /\ LET r == make(arena[a], T) IN
       /\ arena' = [arena EXCEPT ![a].off = r.off]
       /\ last' = Observed(last, [Before("make", a) EXCEPT
                                    !.size = T.size, !.align = T.align,
                                    !.ptr = r.ptr, !.exc = r.exc])
  /\ UNCHANGED <<scope, marks, observe, sghost, mghost, stack>>
  /\ blocks' = Returned(a, make(arena[a], T).ptr, T.size)

MakeArray(a, T, count) ==
  /\ arena[a].live
  /\ LET r == make_array(arena[a], T, count) IN
       /\ arena' = [arena EXCEPT ![a].off = r.off]
       /\ last' = Observed(last, [Before("make_array", a) EXCEPT
                                    !.size = T.size, !.align = T.align,
                                    !.count = count, !.ptr = r.ptr, !.exc = r.exc])
  /\ UNCHANGED <<scope, marks, observe, sghost, mghost, stack>>
  /\ blocks' = Returned(a, make_array(arena[a], T, count).ptr, Mul(T.size, count))

Reset(a) ==
  /\ arena[a].live
  /\ arena' = [arena EXCEPT ![a] = reset(arena[a])]
  /\ sghost' = Observed(sghost, ScopesTouched({a}))
  /\ mghost' = Observed(mghost, MarksTouched({a}))
  /\ last' = Observed(last, Before("reset", a))
  /\ UNCHANGED <<scope, marks, observe, stack>>
  /\ blocks' = Forgotten({a})

\* Mark m = a.mark(), kept by the caller in slot k.
Mark(a, k) ==
  /\ arena[a].live
  /\ marks' = [marks EXCEPT ![k] = [set |-> TRUE, offset |-> mark(arena[a])]]
  /\ mghost' = Observed(mghost, [mghost EXCEPT ![k] =
                 [arena |-> a, born |-> used(arena[a]), pure |-> TRUE]])
  /\ last' = Observed(last, [Before("mark", a) EXCEPT !.b = k,
                                                       !.m = mark(arena[a])])
  /\ UNCHANGED <<arena, scope, observe, sghost, stack, blocks>>

\* a.rewind(m) with the Mark of slot k, captured on any arena.
Rewind(a, k) ==
  /\ arena[a].live
  /\ marks[k].set
  /\ arena' = [arena EXCEPT ![a] = rewind(arena[a], marks[k].offset)]
  /\ sghost' = Observed(sghost, ScopesTouched({a}))
  /\ mghost' = Observed(mghost, MarksTouched({a}))
  /\ last' = Observed(last, [Before("rewind", a) EXCEPT
                               !.b = k, !.m = marks[k].offset,
                               !.born = mghost[k].born,
                               !.own = (mghost[k].arena = a),
                               !.pure = (mghost[k].arena = a /\ mghost[k].pure)])
  /\ UNCHANGED <<scope, marks, observe, stack>>
  /\ blocks' = Forgotten({a})

\* a.rewind(Mark{v}) with a Mark value the caller made up.
RewindRaw(a, v) ==
  /\ arena[a].live
  /\ arena' = [arena EXCEPT ![a] = rewind(arena[a], v)]
  /\ sghost' = Observed(sghost, ScopesTouched({a}))
  /\ mghost' = Observed(mghost, MarksTouched({a}))
  /\ last' = Observed(last, [Before("rewind", a) EXCEPT !.m = v])
  /\ UNCHANGED <<scope, marks, observe, stack>>
  /\ blocks' = Forgotten({a})

\* ------------------------------------------------------------------ Scope

\* A Scope move that leaves the source its arena.
ScopeMovedFromStillActive(S) == S

\* The source of a Scope move: other.a_ = nullptr.
ScopeMovedFrom(S) == [S EXCEPT !.a_ = 0]

\* Scope(Arena &a): a_(&a), m_(a.mark()).
ScopeCtor(s, a) ==
  /\ ~scope[s].live
  /\ arena[a].live
  /\ scope' = [scope EXCEPT ![s] = [live |-> TRUE, a_ |-> a, m_ |-> mark(arena[a])]]
  /\ sghost' = Observed(sghost, [sghost EXCEPT ![s] =
                 [arena |-> a, born |-> used(arena[a]), pure |-> TRUE]])
  /\ stack' = Observed(stack, Append(stack, s))
  /\ last' = Observed(last, [Before("Scope", a) EXCEPT !.b = s,
                                                        !.m = mark(arena[a])])
  /\ UNCHANGED <<arena, marks, observe, mghost, blocks>>

\* Scope(Scope&& other), constructing s from t: other.a_ = nullptr.
ScopeMoveCtor(s, t) ==
  /\ ~scope[s].live
  /\ scope[t].live
  /\ scope' = [scope EXCEPT ![s] = [live |-> TRUE, a_ |-> scope[t].a_,
                                    m_ |-> scope[t].m_],
                            ![t] = ScopeMovedFrom(scope[t])]
  /\ sghost' = Observed(sghost, [ScopesTouched({scope[t].a_}) EXCEPT
                 ![s] = [sghost[t] EXCEPT !.pure = FALSE],
                 ![t] = NoSGhost])
  /\ stack' = Observed(stack, Renamed(stack, t, s))
  /\ last' = Observed(last, [NoLast EXCEPT !.op = "Scope(Scope&&)",
                                           !.a = scope[t].a_, !.b = s, !.src = t])
  /\ UNCHANGED <<arena, marks, observe, mghost, blocks>>

\* s = std::move(t): nothing when this == &other; otherwise the rewind s
\* still holds, then t's arena and mark, and other.a_ = nullptr.
ScopeMoveAssign(s, t) ==
  /\ scope[s].live
  /\ scope[t].live
  /\ LET held == s # t /\ scope[s].a_ # 0
         a == scope[s].a_
     IN
       /\ arena' = IF held THEN [arena EXCEPT ![a] = rewind(arena[a], scope[s].m_)]
                   ELSE arena
       /\ scope' = IF s # t
                   THEN [scope EXCEPT ![s] = [live |-> TRUE, a_ |-> scope[t].a_,
                                              m_ |-> scope[t].m_],
                                      ![t] = ScopeMovedFrom(scope[t])]
                   ELSE scope
       /\ mghost' = Observed(mghost, IF held THEN MarksTouched({a}) ELSE mghost)
       /\ sghost' = Observed(sghost,
                      IF s # t
                      THEN [ScopesTouched({scope[s].a_, scope[t].a_}) EXCEPT
                              ![s] = [sghost[t] EXCEPT !.pure = FALSE],
                              ![t] = NoSGhost]
                      ELSE ScopesTouched({scope[s].a_}))
       /\ stack' = Observed(stack,
                     IF s # t THEN Renamed(Without(stack, s), t, s) ELSE stack)
       /\ last' = Observed(last,
                     IF held
                     THEN [Before("operator=(Scope&&)", a) EXCEPT
                             !.b = s, !.m = scope[s].m_, !.born = sghost[s].born,
                             !.own = TRUE, !.src = t]
                     ELSE [NoLast EXCEPT !.op = "operator=(Scope&&)", !.b = s,
                                         !.src = t])
  /\ UNCHANGED <<marks, observe>>
  /\ blocks' = (IF s # t /\ scope[s].a_ # 0 THEN Forgotten({scope[s].a_}) ELSE blocks)

\* ~Scope(): if (a_) a_->rewind(m_).
ScopeDtor(s) ==
  /\ scope[s].live
  /\ LET held == scope[s].a_ # 0
         a == scope[s].a_
         inner == Innermost(s)
     IN
       /\ arena' = IF held THEN [arena EXCEPT ![a] = rewind(arena[a], scope[s].m_)]
                   ELSE arena
       /\ mghost' = Observed(mghost, IF held THEN MarksTouched({a}) ELSE mghost)
       /\ sghost' = Observed(sghost,
                      [(IF held /\ ~inner THEN ScopesTouched({a}) ELSE sghost)
                         EXCEPT ![s] = NoSGhost])
       /\ last' = Observed(last,
                     IF held
                     THEN [Before("~Scope", a) EXCEPT
                             !.b = s, !.m = scope[s].m_, !.born = sghost[s].born,
                             !.own = TRUE, !.pure = (sghost[s].pure /\ inner)]
                     ELSE [NoLast EXCEPT !.op = "~Scope", !.b = s])
  /\ scope' = [scope EXCEPT ![s] = NoScope]
  /\ stack' = Observed(stack, Without(stack, s))
  /\ UNCHANGED <<marks, observe>>
  /\ blocks' = (IF scope[s].a_ # 0 THEN Forgotten({scope[s].a_}) ELSE blocks)

\* ----------------------------------------------------------- specifications

\* The state after constructing arena 1 with a capacity of CapSet.
InitTracking(obs, keep, CapSet) ==
  /\ \E c \in CapSet, addr \in Bases :
       arena = [a \in ArenaIds |-> IF a = 1 THEN Arena(c, addr) ELSE NoArena]
  /\ scope = [s \in ScopeIds |-> NoScope]
  /\ marks = [k \in MarkIds |-> NoMark]
  /\ observe = obs
  /\ sghost = [s \in ScopeIds |-> NoSGhost]
  /\ mghost = [k \in MarkIds |-> NoMGhost]
  /\ stack = <<>>
  /\ last = NoLast
  /\ blocks = [keep |-> keep, of |-> NoBlocks]

InitWith(obs, CapSet) == InitTracking(obs, FALSE, CapSet)

\* The whole program: every operation on every object, no history kept.
Init == InitWith(FALSE, SmallCaps)

Next ==
  \/ \E a \in ArenaIds, c \in SmallCaps, addr \in Bases : ArenaCtor(a, c, addr)
  \/ \E a, o \in ArenaIds : ArenaMoveCtor(a, o)
  \/ \E a, o \in ArenaIds : ArenaMoveAssign(a, o)
  \/ \E a \in ArenaIds : ArenaDtor(a)
  \/ \E a \in ArenaIds, size \in SomeSizes, alignment \in SomeAlignments :
       TryAllocate(a, size, alignment)
  \/ \E a \in ArenaIds, size \in SomeSizes, alignment \in SomeAlignments :
       Allocate(a, size, alignment)
  \/ \E a \in ArenaIds, T \in Types : Make(a, T)
  \/ \E a \in ArenaIds, T \in Types, count \in Counts : MakeArray(a, T, count)
  \/ \E a \in ArenaIds : Reset(a)
  \/ \E a \in ArenaIds, k \in MarkIds : Mark(a, k)
  \/ \E a \in ArenaIds, k \in MarkIds : Rewind(a, k)
  \/ \E a \in ArenaIds, v \in RawMarks : RewindRaw(a, v)
  \/ \E s \in ScopeIds, a \in ArenaIds : ScopeCtor(s, a)
  \/ \E s, t \in ScopeIds : ScopeMoveCtor(s, t)
  \/ \E s, t \in ScopeIds : ScopeMoveAssign(s, t)
  \/ \E s \in ScopeIds : ScopeDtor(s)

Spec == Init /\ [][Next]_vars

\* One arena with its Marks: the allocation family on every size and
\* alignment, mark, rewind and reset, with the history kept.
InitArena == InitWith(TRUE, Caps)

NextArena ==
  \/ \E size \in Sizes, alignment \in Alignments : TryAllocate(1, size, alignment)
  \/ \E size \in Sizes, alignment \in Alignments : Allocate(1, size, alignment)
  \/ \E T \in Types : Make(1, T)
  \/ \E T \in Types, count \in Counts : MakeArray(1, T, count)
  \/ Reset(1)
  \/ \E k \in MarkIds : Mark(1, k)
  \/ \E k \in MarkIds : Rewind(1, k)
  \/ \E v \in RawMarks : RewindRaw(1, v)

SpecArena == InitArena /\ [][NextArena]_vars

\* One arena with its Scopes, with the history kept.
InitScope == InitWith(TRUE, SmallCaps)

NextScope ==
  \/ \E size \in SomeSizes, alignment \in SomeAlignments : Allocate(1, size, alignment)
  \/ Reset(1)
  \/ \E v \in RawMarks : RewindRaw(1, v)
  \/ \E s \in ScopeIds : ScopeCtor(s, 1)
  \/ \E s, t \in ScopeIds : ScopeMoveCtor(s, t)
  \/ \E s, t \in ScopeIds : ScopeMoveAssign(s, t)
  \/ \E s \in ScopeIds : ScopeDtor(s)

SpecScope == InitScope /\ [][NextScope]_vars

\* The Arena objects alone: construction, moves, destruction and
\* allocations, with the history kept.
InitMove == InitWith(TRUE, Caps)

NextMove ==
  \/ \E a \in ArenaIds, c \in Caps, addr \in Bases : ArenaCtor(a, c, addr)
  \/ \E a, o \in ArenaIds : ArenaMoveCtor(a, o)
  \/ \E a, o \in ArenaIds : ArenaMoveAssign(a, o)
  \/ \E a \in ArenaIds : ArenaDtor(a)
  \/ \E a \in ArenaIds, size \in SomeSizes, alignment \in SomeAlignments :
       Allocate(a, size, alignment)
  \/ \E a \in ArenaIds : Reset(a)

SpecMove == InitMove /\ [][NextMove]_vars

\* The lifetime of the Arena objects with one Scope: construction, moves,
\* destruction, the allocation family, reset, rewind to any Mark value and a
\* Scope opened and closed (its constructor is where mark() is called), with
\* the history kept.  Buffers lie low in the address space.
LowBases == {8}
LifeSizes == {1, Word - 1}
LifeAlignments == {1, 3}
LifeCounts == {0, 1}

InitLife == InitWith(TRUE, SmallCaps) /\ arena[1].base \in LowBases \cup {0}

NextLife ==
  \/ \E a \in ArenaIds, c \in SmallCaps, addr \in LowBases : ArenaCtor(a, c, addr)
  \/ \E a, o \in ArenaIds : ArenaMoveCtor(a, o)
  \/ \E a, o \in ArenaIds : ArenaMoveAssign(a, o)
  \/ \E a \in ArenaIds : ArenaDtor(a)
  \/ \E a \in ArenaIds, size \in LifeSizes, alignment \in LifeAlignments :
       TryAllocate(a, size, alignment)
  \/ \E a \in ArenaIds, size \in LifeSizes, alignment \in LifeAlignments :
       Allocate(a, size, alignment)
  \/ \E a \in ArenaIds, T \in Types, count \in LifeCounts : MakeArray(a, T, count)
  \/ \E a \in ArenaIds : Reset(a)
  \/ \E a \in ArenaIds, v \in RawMarks : RewindRaw(a, v)
  \/ \E a \in ArenaIds : ScopeCtor(1, a)
  \/ ScopeDtor(1)

SpecLife == InitLife /\ [][NextLife]_vars

\* One arena whose returned blocks are recorded, and nothing else of the
\* history: allocations of every size and alignment, with resets and rewinds
\* between the runs of allocations.
InitBlocks == InitTracking(FALSE, TRUE, Caps)

NextBlocks ==
  \/ \E size \in Sizes, alignment \in Alignments : TryAllocate(1, size, alignment)
  \/ \E size \in Sizes, alignment \in Alignments : Allocate(1, size, alignment)
  \/ Reset(1)
  \/ \E v \in RawMarks : RewindRaw(1, v)

SpecBlocks == InitBlocks /\ [][NextBlocks]_vars

\* ------------------------------------------------------------------ claims

\* x is a power of two, said without the code's bit trick.
Pow2(x) == \E i \in 0 .. (WordBits - 1) : x = 2 ^ i

IsAlloc == last.op \in {"try_allocate", "allocate"}
IsArenaMove == last.op \in {"Arena(Arena&&)", "operator=(Arena&&)"}

\* The arena an allocation was made on, as it was before the call.
ArenaBefore == [arena[last.a] EXCEPT !.off = last.preOff]

\* C1: in every reachable state, whatever the sequence of constructions,
\* allocations, marks, rewinds (with any Mark value), resets, Scope
\* operations and Arena moves, every arena has 0 <= used() <= capacity().
C1_UsedWithinCapacity ==
  \A a \in ArenaIds :
    arena[a].live => 0 <= used(arena[a]) /\ used(arena[a]) <= capacity(arena[a])

\* A full arena beside an arena that lost its buffer to a move while a
\* Scope still holds a mark above its capacity.
C1_Witness ==
  \E a, b \in ArenaIds, s \in ScopeIds :
    /\ a # b /\ arena[a].live /\ arena[b].live
    /\ capacity(arena[a]) > 0 /\ used(arena[a]) = capacity(arena[a])
    /\ scope[s].live /\ scope[s].a_ = b /\ scope[s].m_ > capacity(arena[b])

\* C2: every successful allocation returns an address that is a multiple of
\* the requested alignment and that the arena owns.
C2_AlignedAndOwned ==
  (IsAlloc /\ last.ptr # 0 /\ last.exc = "none") =>
    /\ last.ptr % last.align = 0
    /\ owns(arena[last.a], last.ptr)

\* C3: a failed allocation (try_allocate returning null, allocate raising)
\* leaves used() and capacity() as they were.
C3_FailureLeavesArenaUnchanged ==
  (IsAlloc /\ (last.ptr = 0 \/ last.exc # "none")) =>
    /\ used(arena[last.a]) = last.preOff
    /\ capacity(arena[last.a]) = last.preCap

\* C4: with an alignment that is not a power of two try_allocate returns
\* null and allocate raises; and allocate raises exactly when try_allocate
\* on the same state and arguments returns null.
C4_InvalidAlignmentFails ==
  /\ (last.op = "try_allocate" /\ ~Pow2(last.align)) => last.ptr = 0
  /\ (last.op = "allocate" /\ ~Pow2(last.align)) => last.exc # "none"
  /\ last.op = "allocate" =>
       (last.exc # "none" <=> try_allocate(ArenaBefore, last.size, last.align).ptr = 0)

\* allocate raised on an alignment of 3 in an arena with room left.
C4_Witness ==
  /\ last.op = "allocate" /\ last.align = 3 /\ last.exc # "none"
  /\ last.preOff > 0 /\ last.preOff < last.preCap

\* C5 as stated: allocate reports an insufficient capacity as an
\* out-of-memory condition and an invalid alignment as another,
\* invalid-argument condition.
C5_DistinctConditions ==
  (last.op = "allocate" /\ last.exc # "none") =>
    IF Pow2(last.align) THEN last.exc = "bad_alloc"
    ELSE last.exc = "invalid_argument"

\* C5 as amended: allocate reports both causes, insufficient capacity and an
\* invalid alignment, as the same out-of-memory condition std::bad_alloc.
C5_OneCondition ==
  /\ (last.op = "allocate" /\ last.exc # "none") => last.exc = "bad_alloc"
  /\ (last.op = "allocate" /\ ~Pow2(last.align)) => last.exc = "bad_alloc"

\* allocate raised std::bad_alloc for an alignment that is no power of two.
C5_Witness ==
  last.op = "allocate" /\ ~Pow2(last.align) /\ last.exc = "bad_alloc"

\* C6: rewind(m), with m from mark() on this arena and only allocations
\* (successful or failed) since, sets used() to its value at the capture.
C6_RewindRestoresMark ==
  (last.op = "rewind" /\ last.pure) => used(arena[last.a]) = last.born

\* A rewind to a mark of this arena after allocations that moved used().
C6_Witness ==
  last.op = "rewind" /\ last.pure /\ last.preOff > last.born /\ last.born > 0

\* C7: with Scopes on one arena opened and closed in nested order and only
\* allocations inside them, destroying a Scope restores used() to its value
\* at the Scope's construction.
C7_ScopeRestoresUsed ==
  (last.op = "~Scope" /\ last.pure) => used(arena[last.a]) = last.born

\* An inner Scope closed after allocations, its outer Scope still open.
C7_Witness ==
  /\ last.op = "~Scope" /\ last.pure /\ last.preOff > last.born
  /\ \E t \in ScopeIds :
       /\ scope[t].live /\ scope[t].a_ = last.a
       /\ sghost[t].pure /\ sghost[t].born < last.born

IsRewind == last.op \in {"rewind", "~Scope", "operator=(Scope&&)"} /\ last.a # 0

\* C8 as stated: rewinding to a Mark obtained from this arena, directly or
\* by a Scope's destruction, never leaves used() greater than it was.
C8_RewindOnlyBackward ==
  (IsRewind /\ last.own) => used(arena[last.a]) <= last.preOff

\* C8 as amended: a rewind to m (by rewind, a Scope's destruction or a Scope's
\* move assignment) leaves used() no greater than it was when used() was at
\* least m.offset; when used() had been moved below m.offset and m.offset is
\* within capacity(), it raises used() to m.offset.
C8_RewindToMark ==
  IsRewind =>
    /\ last.preOff >= last.m => used(arena[last.a]) <= last.preOff
    /\ (last.preOff < last.m /\ last.m <= last.preCap) =>
         used(arena[last.a]) = last.m

\* A Scope destroyed after a reset: its rewind moved used() forward.
C8_Witness ==
  /\ last.op = "~Scope" /\ last.own
  /\ last.preOff < last.m /\ used(arena[last.a]) = last.m

\* C9 as stated: an Arena move gives the destination the source's used()
\* and capacity() and leaves the source with used() = 0.
C9_MovePreserves ==
  IsArenaMove =>
    /\ used(arena[last.a]) = last.preOff
    /\ capacity(arena[last.a]) = last.preCap
    /\ used(arena[last.b]) = 0

\* C9 as amended: a move construction, or a move assignment from another
\* Arena, gives the destination the source's used() and capacity() and
\* leaves the source with used() = 0; a move assignment of an Arena to
\* itself leaves its used() and capacity() as they were.
C9_MoveBetweenArenas ==
  IsArenaMove =>
    /\ used(arena[last.a]) = last.preOff
    /\ capacity(arena[last.a]) = last.preCap
    /\ last.a # last.b => used(arena[last.b]) = 0

\* A move assignment from another arena that had allocations.
C9_Witness ==
  /\ last.op = "operator=(Arena&&)" /\ last.a # last.b /\ last.preOff > 0
  /\ used(arena[last.a]) = last.preOff

\* C10 as stated: after an Arena move the source's capacity() is what it
\* was before the move.
C10_SourceCapacityKept ==
  IsArenaMove => capacity(arena[last.b]) = last.preCap

\* C10 as amended: after a move construction, or a move assignment to
\* another Arena, the source's capacity() is 0, its buffer having gone to the
\* destination; only a move assignment to itself leaves it unchanged.
C10_SourceCapacityZero ==
  IsArenaMove =>
    IF last.a # last.b THEN capacity(arena[last.b]) = 0
    ELSE capacity(arena[last.b]) = last.preCap

\* An arena with a buffer was moved from.
C10_Witness ==
  IsArenaMove /\ last.a # last.b /\ last.preCap > 0 /\ capacity(arena[last.b]) = 0

\* Arena a is the source of the Arena move that `last` records.
IsMoveSource(a) == IsArenaMove /\ last.b = a /\ last.a # a
\* Arena a is the target of the move assignment that `last` records.
IsAssignTarget(a) == last.op = "operator=(Arena&&)" /\ last.a = a /\ last.b # a

\* C11 as stated: no operation on a live arena (allocate, try_allocate,
\* make_array, mark, rewind, reset, a Scope opened or closed, being the
\* target of a move assignment) changes what capacity() returns; only being
\* moved from is left aside.
C11_CapacityFixed ==
  [][\A a \in ArenaIds :
       (arena[a].live /\ arena'[a].live /\ ~IsMoveSource(a)') =>
         capacity(arena'[a]) = capacity(arena[a])]_vars

\* C11 as amended: allocate, try_allocate, make_array, mark, rewind, reset
\* and a Scope opened or closed leave capacity() as it was; a move
\* assignment from another Arena gives its target the capacity() of the
\* source, whatever the target's capacity() was.
C11_CapacityFixedButAssigned ==
  [][\A a \in ArenaIds :
       /\ (arena[a].live /\ arena'[a].live /\ ~IsMoveSource(a)'
             /\ ~IsAssignTarget(a)') =>
            capacity(arena'[a]) = capacity(arena[a])
       /\ IsAssignTarget(a)' => capacity(arena'[a]) = capacity(arena[last'.b])]_vars

\* An arena on which a Scope was opened after allocations was assigned an
\* arena without a buffer: its capacity() is now below the Scope's mark.
C11_Witness ==
  /\ last.op = "operator=(Arena&&)" /\ last.a # last.b
  /\ scope[1].live /\ scope[1].a_ = last.a
  /\ scope[1].m_ > capacity(arena[last.a])

\* max(size, 1): the bytes a request for size bytes reserves.
Reserved(size) == IF size = 0 THEN 1 ELSE size
\* The last operation was an allocation that returned a block.
AllocSucceeded == IsAlloc /\ last.ptr # 0 /\ last.exc = "none"

\* C12: an allocate or try_allocate call with a power-of-two alignment never
\* lowers used(): a successful call raises it by at least max(size, 1) and a
\* failed call leaves it as it was.
C12_UsedNeverDecreases ==
  (IsAlloc /\ Pow2(last.align)) =>
    /\ used(arena[last.a]) >= last.preOff
    /\ AllocSucceeded => used(arena[last.a]) >= last.preOff + Reserved(last.size)
    /\ ~AllocSucceeded => used(arena[last.a]) = last.preOff

\* The arena is empty with the capacity it had before the last operation.
EmptiedWithCapacityKept ==
  /\ used(arena[last.a]) = 0
  /\ capacity(arena[last.a]) = last.preCap
  /\ empty(arena[last.a])
  /\ remaining(arena[last.a]) = capacity(arena[last.a])

\* C13: in every reachable state reset() and rewind(Mark{0}) produce the same
\* arena; after either used() is 0, capacity() is what it was, empty() is
\* true and remaining() equals capacity().
C13_ResetIsRewindToZero ==
  /\ \A a \in ArenaIds : arena[a].live => reset(arena[a]) = rewind(arena[a], 0)
  /\ last.op = "reset" =>
       arena[last.a] = rewind(ArenaBefore, 0) /\ EmptiedWithCapacityKept
  /\ (last.op = "rewind" /\ last.m = 0) =>
       arena[last.a] = reset(ArenaBefore) /\ EmptiedWithCapacityKept

\* A full arena was reset.
C13_Witness ==
  /\ last.op = "reset" /\ last.preCap > 0 /\ last.preOff = last.preCap
  /\ empty(arena[last.a])

\* used() is 0, empty() is true and remaining() equals capacity().
Fresh(A) == used(A) = 0 /\ empty(A) /\ remaining(A) = capacity(A)

\* C14: right after Arena(capacity_bytes), for any capacity, 0 and the
\* default constructor included, used() is 0, empty() is true and remaining()
\* equals capacity(); and in every later state remaining() is capacity()
\* less used().
C14_FreshThenRemaining ==
  /\ last.op = "none" => Fresh(arena[1])
  /\ last.op = "Arena" => Fresh(arena[last.a])
  /\ \A a \in ArenaIds :
       arena[a].live =>
         /\ used(arena[a]) <= capacity(arena[a])
         /\ remaining(arena[a]) + used(arena[a]) = capacity(arena[a])

\* An arena was default-constructed beside one that is partly used.
C14_Witness ==
  /\ last.op = "Arena" /\ capacity(arena[last.a]) = 0
  /\ \E b \in ArenaIds :
       /\ b # last.a /\ arena[b].live
       /\ 0 < used(arena[b]) /\ used(arena[b]) < capacity(arena[b])
       /\ remaining(arena[b]) > 0

\* C15: make_array<T>(0) returns null without raising and leaves used() as
\* it was, in every arena state, a full or zero-capacity arena included.
C15_EmptyArrayAllocatesNothing ==
  (last.op = "make_array" /\ last.count = 0) =>
    /\ last.ptr = 0 /\ last.exc = "none"
    /\ used(arena[last.a]) = last.preOff
    /\ capacity(arena[last.a]) = last.preCap

\* make_array<T>(0) on a full arena, where allocating one byte raises.
C15_Witness ==
  /\ last.op = "make_array" /\ last.count = 0 /\ last.ptr = 0
  /\ last.preCap > 0 /\ last.preOff = last.preCap
  /\ allocate(ArenaBefore, 1, 1).exc # "none"

\* C16: an allocation with alignment 1 whose size is the (non-zero)
\* remaining() succeeds and leaves remaining() at 0; and when remaining() is
\* 0, a zero-capacity arena included, every try_allocate returns null and
\* every allocate raises, whatever the size and the alignment.
C16_ExactFitThenFull ==
  /\ (IsAlloc /\ last.align = 1 /\ last.size = remaining(ArenaBefore)
        /\ last.size > 0) =>
       AllocSucceeded /\ remaining(arena[last.a]) = 0
  /\ (IsAlloc /\ remaining(ArenaBefore) = 0) =>
       /\ last.ptr = 0
       /\ last.op = "allocate" => last.exc # "none"

\* C17: rewind(m) with m.offset above capacity() changes neither used() nor
\* capacity() and raises nothing; with m.offset <= capacity() it sets used()
\* to exactly m.offset.
C17_RewindOutOfRangeIsNoOp ==
  last.op = "rewind" =>
    /\ capacity(arena[last.a]) = last.preCap
    /\ last.exc = "none"
    /\ IF last.m > last.preCap THEN used(arena[last.a]) = last.preOff
       ELSE used(arena[last.a]) = last.m

\* A rewind to a Mark above the capacity of an arena with allocations.
C17_Witness ==
  /\ last.op = "rewind" /\ last.m > last.preCap
  /\ last.preOff > 0 /\ used(arena[last.a]) = last.preOff

\* Every rewind a Scope constructor created is held by exactly one Scope
\* object, with the arena and the mark of that construction, and a Scope
\* object without one holds no arena.
EachDutyHeldOnce ==
  \A s \in ScopeIds :
    IF sghost[s].arena # 0
    THEN /\ scope[s].live
         /\ scope[s].a_ = sghost[s].arena
         /\ scope[s].m_ = sghost[s].born
    ELSE scope[s].a_ = 0

\* The arenas after the one rewind that the responsibility d asks for; the
\* arenas as they are when d is none.
Discharged(d) ==
  IF d.arena # 0
  THEN [arena EXCEPT ![d.arena] = rewind(arena[d.arena], d.born)]
  ELSE arena

\* C18: the rewind to the mark a Scope captured at its construction is
\* performed exactly once.  It is held by one Scope object at a time; a move
\* construction and a self-assignment rewind nothing; a destructor, and a
\* move assignment into a Scope, perform the one rewind that this Scope
\* object held (none if it was moved from) and nothing else, the move
\* assignment before it takes over the source's arena and mark.
C18_RewindExactlyOnce ==
  [][/\ EachDutyHeldOnce'
     /\ last'.op = "Scope(Scope&&)" => arena' = arena
     /\ (last'.op = "operator=(Scope&&)" /\ last'.b = last'.src) =>
          arena' = arena /\ scope' = scope
     /\ (last'.op = "operator=(Scope&&)" /\ last'.b # last'.src) =>
          arena' = Discharged(sghost[last'.b])
     /\ last'.op = "~Scope" => arena' = Discharged(sghost[last'.b])]_vars

\* A Scope with allocations since its construction was assigned another
\* active Scope: its arena was rewound to its own mark, it now holds the
\* other's mark, and the other holds nothing.
C18_Witness ==
  /\ last.op = "operator=(Scope&&)" /\ last.b # last.src
  /\ last.a # 0 /\ last.preOff > last.born
  /\ used(arena[last.a]) = last.born
  /\ scope[last.b].a_ # 0 /\ scope[last.b].m_ # last.m
  /\ scope[last.src].live /\ scope[last.src].a_ = 0

\* The distance from addr up to the next multiple of alignment, in unbounded
\* arithmetic.
Padding(addr, alignment) == (alignment - (addr % alignment)) % alignment

\* C19: the offset arithmetic of try_allocate does not wrap: with a
\* power-of-two alignment an allocation succeeds only if, in unbounded
\* arithmetic, used() + padding + max(size, 1) <= capacity(), padding being
\* the distance from base + used() up to the next multiple of alignment; and
\* no allocation leaves used() smaller than it was.
C19_NoWrap ==
  (IsAlloc /\ Pow2(last.align)) =>
    /\ AllocSucceeded =>
         last.preOff + Padding(ArenaBefore.base + last.preOff, last.align)
           + Reserved(last.size) <= last.preCap
    /\ used(arena[last.a]) >= last.preOff

\* C20: the blocks [p, p + max(size, 1)) returned by successful allocations
\* on one arena with no rewind, reset or move between them lie inside
\* [base, base + capacity), and a later block starts at or after the end of
\* every earlier one, so that no two of them share a byte.
C20_BlocksDisjoint ==
  \A a \in ArenaIds :
    arena[a].live =>
      LET B == blocks.of[a] IN
        /\ \A i \in 1 .. Len(B) :
             /\ B[i].p >= arena[a].base
             /\ B[i].p + B[i].n <= arena[a].base + capacity(arena[a])
        /\ \A i, j \in 1 .. Len(B) : i < j => B[j].p >= B[i].p + B[i].n

=============================================================================
